---- MODULE Spec2Model ----
(***************************************************************************)
(* Model of notus/scanner/loader/gpg_sha_verifier.py: the sha256sums        *)
(* manifest cache (reload_sha256sums / internal_reload), the signature      *)
(* check and parse of the manifest (gpg_sha256sums) and the per-file        *)
(* decision procedure (create_verify / verify).                             *)
(*                                                                         *)
(* Text is a sequence of one-character strings.  A Python dict is a set of  *)
(* <<key, value>> pairs with unique keys.  An Optional value is <<>> (None)  *)
(* or <<v>>.                                                                *)
(***************************************************************************)
EXTENDS Naturals, Sequences, FiniteSets

\* ------------------------------------------------------------------ bounds
\* Largest number of lines of a manifest file the environment writes.
MaxLines == 1

\* ------------------------------------------------------------ Python values
None == <<>>
Some(v) == <<v>>

EmptyDict == {}

DictKeys(d) == {p[1] : p \in d}

\* dict.get(k): None when the key is absent, else the stored value
DictGet(d, k) ==
  IF k \in DictKeys(d) THEN Some((CHOOSE p \in d : p[1] = k)[2]) ELSE None

\* d[k] = v
DictSet(d, k, v) == {p \in d : p[1] # k} \cup {<<k, v>>}

\* Python truthiness of Optional[Dict]: None and {} are both falsy
TruthyDict(o) == o # None /\ o[1] # EmptyDict

\* Python truthiness of Optional[str]: None and "" are both falsy
TruthyStr(o) == o # None /\ o[1] # <<>>

\* ------------------------------------------------------------ str methods
Whitespace == {" ", "\n"}

Tail2(s, i) == SubSeq(s, i, Len(s))

\* index of the first "\n" of s, or 0
FindNewline(s) ==
  IF \E i \in 1..Len(s) : s[i] = "\n"
  THEN CHOOSE i \in 1..Len(s) : s[i] = "\n" /\ \A j \in 1..(i-1) : s[j] # "\n"
  ELSE 0

\* f.readlines(): the lines of the text, each keeping its newline
RECURSIVE readlines(_)
\* the first line, ending at its newline at index n (0: no newline), and
\* the lines after it
lines_from(s, n) ==
  IF n = 0 THEN <<s>>
  ELSE <<SubSeq(s, 1, n)>> \o readlines(Tail2(s, n + 1))

readlines(s) == IF s = <<>> THEN <<>> ELSE lines_from(s, FindNewline(s))

\* index of the leftmost two-space run of s, or 0
FindSep(s) ==
  IF \E i \in 1..(Len(s)-1) : s[i] = " " /\ s[i+1] = " "
  THEN CHOOSE i \in 1..(Len(s)-1) :
         /\ s[i] = " " /\ s[i+1] = " "
         /\ \A j \in 1..(i-1) : ~(s[j] = " " /\ s[j+1] = " ")
  ELSE 0

\* line.split("  "): split at every non-overlapping separator, left to right
RECURSIVE split_sep(_)
\* the part before the separator at index i (0: no separator), and the
\* parts after it
parts_from(s, i) ==
  IF i = 0 THEN <<s>>
  ELSE <<SubSeq(s, 1, i - 1)>> \o split_sep(Tail2(s, i + 2))

split_sep(s) == parts_from(s, FindSep(s))

\* fname.split("/")[-1]: the text after the last "/"
LastSegment(s) ==
  IF \E i \in 1..Len(s) : s[i] = "/"
  THEN Tail2(s, 1 + CHOOSE i \in 1..Len(s) :
                      s[i] = "/" /\ \A j \in (i+1)..Len(s) : s[j] # "/")
  ELSE s

\* str.strip(): leading and trailing whitespace removed
strip(s) ==
  IF \A i \in 1..Len(s) : s[i] \in Whitespace THEN <<>>
  ELSE SubSeq(s,
         CHOOSE i \in 1..Len(s) :
           s[i] \notin Whitespace /\ \A j \in 1..(i-1) : s[j] \in Whitespace,
         CHOOSE i \in 1..Len(s) :
           s[i] \notin Whitespace /\ \A j \in (i+1)..Len(s) : s[j] \in Whitespace)

\* ------------------------------------------------------------ environment
\* Lines the environment writes into the manifest (sha256sums) file:
\* a path-qualified entry, an entry whose name ends in "/", a line without
\* the two-space separator, and an entry with a bare name.
LinePath == <<"a", " ", " ", "c", "/", "b", "\n">>
LineDir  == <<"a", " ", " ", "b", "/", "\n">>
LineBad  == <<"a", "b", "\n">>
LineBare == <<"a", " ", " ", "b", "\n">>

Lines == {LinePath, LineDir, LineBad, LineBare}

RECURSIVE Concat(_)
Concat(ls) == IF ls = <<>> THEN <<>> ELSE Head(ls) \o Concat(Tail(ls))

\* Contents of the manifest file: up to MaxLines lines
Manifests == {Concat(ls) : ls \in UNION {[1..n -> Lines] : n \in 0..MaxLines}}

\* The detached signature file <hash_file>.asc: absent, or present and
\* holding a signature that is, or is not, a valid signature of the bytes
\* now in the manifest file.
AscFiles == {"absent", "valid", "invalid"}

\* Advisory files handed to verify: whether the path is a regular file,
\* the sha256 hex digest of its bytes, and its basename.
HashSums == {<<"a">>, <<"b">>}
FileNames == {<<"a">>, <<"b">>}
NotAFile == [is_file |-> FALSE, sha256 |-> <<>>, name |-> <<"a">>]
AdvisoryPaths ==
  [is_file : {TRUE}, sha256 : HashSums, name : FileNames] \cup {NotAFile}

\* What the caller-supplied on_verification_failure does when invoked:
\* raise, return an empty dict, or return a dict of its own.
HandlerDict == {<<(<<"a">>), (<<"a">>)>>}
HandlerChoices == {"raise", "empty", "dict"}

\* ------------------------------------------------------------ gnupg
\* gpg.verify_file(f, path): truthy iff the signature read from the open
\* .asc file is a valid signature of the data file's bytes
verify_file(asc) == asc = "valid"

\* ------------------------------------------------------------ gpg_sha256sums
\* the loop over f.readlines(): ValueError when a line does not unpack
\* into exactly two parts
RECURSIVE parse_lines(_, _, _)
\* hsum, fname = parts; result[hsum] = fname.split("/")[-1].strip()
parse_line(lines, i, result, parts) ==
  IF Len(parts) # 2
  THEN [raised |-> "ValueError", result |-> None, stored |-> i - 1]
  ELSE parse_lines(lines, i + 1,
                   DictSet(result, parts[1], strip(LastSegment(parts[2]))))

parse_lines(lines, i, result) ==
  IF i > Len(lines)
  THEN [raised |-> "", result |-> Some(result), stored |-> i - 1]
  ELSE parse_line(lines, i, result, split_sep(lines[i]))

\* the parse of every manifest content the environment writes, computed
\* once by the loop above
ParseTable == [m \in Manifests |-> parse_lines(readlines(m), 1, EmptyDict)]

\* with hash_file.open() as f: for line in f.readlines(): ...
parse_file(hash_file) == ParseTable[hash_file]

\* gpg_sha256sums(hash_file, gpg): the outcome of one call.
\*   raised   - "" or the exception that leaves the function
\*   result   - the returned Optional[Dict] (None also when it raised)
\*   verified - number of gpg.verify_file calls made
\*   valid    - what gpg.verify_file reported (FALSE when it was not called)
\*   opened   - whether hash_file was opened for parsing
\*   stored   - number of lines stored into the local result
\* asc_path.open() failed
AscMissing ==
  [raised |-> "FileNotFoundError", result |-> None,
   verified |-> 0, valid |-> FALSE, opened |-> FALSE, stored |-> 0]

\* if not verified: return None
Unverified ==
  [raised |-> "", result |-> None,
   verified |-> 1, valid |-> FALSE, opened |-> FALSE, stored |-> 0]

\* the parse loop ran with outcome p, after verify_file reported valid
Parsed(p, valid) ==
  [raised |-> p.raised, result |-> p.result,
   verified |-> 1, valid |-> valid, opened |-> TRUE, stored |-> p.stored]

\* A plausible slip: the manifest is parsed whatever verify_file reports.
gpg_sha256sums_unchecked(hash_file, asc) ==
  IF asc = "absent" THEN AscMissing
  ELSE Parsed(parse_file(hash_file), verify_file(asc))

\* the parse loop ran first; its result is dropped when the signature is bad
ParsedFirst(p, valid) ==
  [raised |-> p.raised, result |-> IF valid THEN p.result ELSE None,
   verified |-> 1, valid |-> valid, opened |-> TRUE, stored |-> p.stored]

\* A plausible slip: the manifest is parsed first and the signature is
\* looked at afterwards.
gpg_sha256sums_parse_first(hash_file, asc) ==
  IF asc = "absent" THEN AscMissing
  ELSE ParsedFirst(parse_file(hash_file), verify_file(asc))

gpg_sha256sums(hash_file, asc) ==
  IF asc = "absent" THEN AscMissing
  ELSE IF ~verify_file(asc) THEN Unverified
  ELSE Parsed(parse_file(hash_file), TRUE)

\* ------------------------------------------------------------ create_hash
\* sha1 hex digest of the file's bytes; distinct contents get distinct
\* digests, and no digest is the initial fingerprint ""
create_hash(file) == <<"sha1", file>>

InitialFingerprint == <<>>

\* ------------------------------------------------------------ internal_reload
\* gpg_sha256sums was not called
NoGpgCall ==
  [raised |-> "", result |-> None,
   verified |-> 0, valid |-> FALSE, opened |-> FALSE, stored |-> 0]

\* what the handler returns when it does not raise
HandlerResult(h) == IF h = "dict" THEN HandlerDict ELSE EmptyDict

\* line 76: why the refresh branch is entered: "no_cache" (cache falsy),
\* "changed" (fingerprint differs), or "" when it is not (a cache hit)
refresh_reason(config, fingerprint) ==
  IF ~TruthyDict(config.cache) THEN "no_cache"
  ELSE IF config.fingerprint # fingerprint THEN "changed"
  ELSE ""

\* lines 77-78: the configuration after the refresh branch, given the
\* outcome g of gpg_sha256sums; line 77 has run when line 78 raises
after_refresh(config, fingerprint, g) ==
  IF g.raised # ""
  THEN [config EXCEPT !.fingerprint = fingerprint]
  ELSE [cache |-> g.result, fingerprint |-> fingerprint]

\* the exception that leaves the call, or ""
call_raises(c1, g, h) ==
  IF g.raised # "" THEN g.raised
  ELSE IF ~TruthyDict(c1.cache) /\ h = "raise" THEN "HandlerError"
  ELSE ""

\* lines 79-81, on the configuration c1 left by lines 76-78.
\*   config         - the ReloadConfiguration after the call
\*   refreshed      - whether the call entered the refresh branch
\*   reason         - see refresh_reason
\*   gpg            - the outcome of gpg_sha256sums (NoGpgCall on a cache hit)
\*   handler_called - whether on_verification_failure was invoked
\*   handler_arg    - the argument it was invoked with
\*   raised         - "" or the exception that leaves the call
\*   returned       - the returned dict (None when the call raised)
reload_return(c1, reason, g, h) ==
  [config         |-> c1,
   called         |-> TRUE,
   refreshed      |-> reason # "",
   reason         |-> reason,
   gpg            |-> g,
   handler_called |-> g.raised = "" /\ ~TruthyDict(c1.cache),
   handler_arg    |-> None,
   raised         |-> call_raises(c1, g, h),
   returned       |-> IF call_raises(c1, g, h) # "" THEN None
                      ELSE IF ~TruthyDict(c1.cache) THEN Some(HandlerResult(h))
                      ELSE c1.cache]

\* the refresh branch, with fingerprint the digest just computed and g the
\* outcome of gpg_sha256sums
reload_refresh(config, fingerprint, reason, g, h) ==
  reload_return(after_refresh(config, fingerprint, g), reason, g, h)

\* lines 75-76, with fingerprint the digest just computed
reload_with(config, fingerprint, hash_file, asc, h) ==
  IF refresh_reason(config, fingerprint) # ""
  THEN reload_refresh(config, fingerprint, refresh_reason(config, fingerprint),
                      gpg_sha256sums(hash_file, asc), h)
  ELSE reload_return(config, "", NoGpgCall, h)

\* A plausible slip: the fingerprint is not compared, only the cache is
\* tested.
internal_reload_no_compare(config, hash_file, asc, h) ==
  IF ~TruthyDict(config.cache)
  THEN reload_refresh(config, create_hash(hash_file), "no_cache",
                      gpg_sha256sums(hash_file, asc), h)
  ELSE reload_return(config, "", NoGpgCall, h)

\* One call of the closure returned by reload_sha256sums, on configuration
\* config, with the manifest file, the .asc file and the handler's
\* behaviour h as found at the call.
internal_reload(config, hash_file, asc, h) ==
  reload_with(config, create_hash(hash_file), hash_file, asc, h)

\* the provider was not called
NoCall(config) ==
  [config         |-> config,
   called         |-> FALSE,
   refreshed      |-> FALSE,
   reason         |-> "",
   gpg            |-> NoGpgCall,
   handler_called |-> FALSE,
   handler_arg    |-> None,
   raised         |-> "",
   returned       |-> None]

\* ------------------------------------------------------------ verify
\* lines 146-152, on the Optional[str] assumed_name
classify(advisory_path, assumed_name) ==
  IF ~TruthyStr(assumed_name) THEN "INVALID_HASH"
  ELSE IF assumed_name[1] = advisory_path.name THEN "SUCCESS"
  ELSE "INVALID_NAME"

\* lines 145-152, with r the provider call made at line 145
verify_with(advisory_path, r) ==
  [result |-> IF r.raised # "" THEN "raised"
              ELSE classify(advisory_path,
                            DictGet(r.returned[1], advisory_path.sha256)),
   call |-> r]

\* a hash that is not listed is reported as a wrong name
classify_absent_as_name(advisory_path, assumed_name) ==
  IF TruthyStr(assumed_name) /\ assumed_name[1] = advisory_path.name
  THEN "SUCCESS"
  ELSE "INVALID_NAME"

verify_with_absent_as_name(advisory_path, r) ==
  [result |-> IF r.raised # "" THEN "raised"
              ELSE classify_absent_as_name(advisory_path,
                            DictGet(r.returned[1], advisory_path.sha256)),
   call |-> r]

\* A plausible slip: a hash that is not listed is reported as a wrong name.
verify_absent_as_name(advisory_path, config, hash_file, asc, h) ==
  IF ~advisory_path.is_file
  THEN [result |-> "INVALID_FILE", call |-> NoCall(config)]
  ELSE verify_with_absent_as_name(advisory_path,
                                  internal_reload(config, hash_file, asc, h))

\* the provider call r was made before the path was looked at
invalid_file_after(r) ==
  [result |-> IF r.raised # "" THEN "raised" ELSE "INVALID_FILE", call |-> r]

\* A plausible slip: the dict is fetched from the provider before the
\* is_file test.
verify_provider_first(advisory_path, config, hash_file, asc, h) ==
  IF ~advisory_path.is_file
  THEN invalid_file_after(internal_reload(config, hash_file, asc, h))
  ELSE verify_with(advisory_path, internal_reload(config, hash_file, asc, h))

\* One call of the closure returned by create_verify(sha256sums), where
\* sha256sums is the closure above.  result is the VerificationResult, or
\* "raised" when the provider raised.
verify(advisory_path, config, hash_file, asc, h) ==
  IF ~advisory_path.is_file
  THEN [result |-> "INVALID_FILE", call |-> NoCall(config)]
  ELSE verify_with(advisory_path, internal_reload(config, hash_file, asc, h))

\* ------------------------------------------------------------ state
VARIABLES
  hash_file,       \* bytes of the manifest file config.hash_file
  asc_file,        \* the sibling <hash_file>.asc, one of AscFiles
  config,          \* the ReloadConfiguration's cache and fingerprint
  last,            \* the most recent operation and what it did
  last_validated,  \* the last dict gpg_sha256sums returned after a valid
                   \* signature (None before the first)
  handler_used,    \* whether on_verification_failure was ever invoked
  callers,         \* where each concurrent caller of the provider stands
                   \* inside internal_reload, and its local variables
  heap,            \* the dict objects gpg_sha256sums has created, by
                   \* identity (used where config.cache is a reference)
  handed_out       \* identities of the dicts returned to callers

vars ==
  <<hash_file, asc_file, config, last, last_validated, handler_used, callers,
    heap, handed_out>>

\* the dict objects and who holds them
objects == <<heap, handed_out>>

NoObjects == <<>>

\* Threads that call the one provider closure concurrently.
Callers == {"t1", "t2"}

\* a caller outside internal_reload
Idle ==
  [pc |-> "idle", fingerprint |-> None, refreshed |-> FALSE,
   handler_called |-> FALSE, raised |-> "", returned |-> None]

NoCallers == [t \in Callers |-> Idle]

NoPath == None

\* record of an operation: op is "init", "write", "reload" or "verify";
\* seq flips at every reload or verify, so that two equal consecutive
\* calls are still two steps
Op(op, seq, path, result, call) ==
  [op |-> op, seq |-> seq, path |-> path, result |-> result,
   call |-> [c \in DOMAIN call \ {"config"} |-> call[c]]]

Flip(seq) == 1 - seq

Init ==
  /\ hash_file \in Manifests
  /\ asc_file \in AscFiles
  /\ config = [cache |-> None, fingerprint |-> InitialFingerprint]
  /\ last = Op("init", 0, NoPath, "", NoCall(config))
  /\ last_validated = None
  /\ handler_used = FALSE
  /\ callers = NoCallers
  /\ heap = NoObjects
  /\ handed_out = {}

\* bookkeeping after a provider call r
Record(r) ==
  /\ IF r.gpg.valid /\ r.gpg.raised = ""
     THEN last_validated' = r.gpg.result
     ELSE UNCHANGED last_validated
  /\ handler_used' = (handler_used \/ r.handler_called)

\* the environment replaces the manifest file; a signature file that is
\* present is afterwards valid for the new bytes (a) or not
WriteManifest(m, a) ==
  /\ m # hash_file
  /\ hash_file' = m
  /\ asc_file' = IF asc_file = "absent" THEN "absent" ELSE a
  /\ last' = Op("write", last.seq, NoPath, "", NoCall(config))
  /\ UNCHANGED <<config, last_validated, handler_used, callers, objects>>

\* the environment replaces or removes the signature file
WriteAsc(s) ==
  /\ s # asc_file
  /\ asc_file' = s
  /\ last' = Op("write", last.seq, NoPath, "", NoCall(config))
  /\ UNCHANGED <<hash_file, config, last_validated, handler_used, callers,
                 objects>>

\* the effect of an operation that made the provider call r (or none)
Effect(op, path, result, r) ==
  /\ config' = r.config
  /\ last' = Op(op, Flip(last.seq), path, result, r)
  /\ Record(r)
  /\ UNCHANGED <<hash_file, asc_file, callers, objects>>

\* a caller invokes the provider
Reload(h) ==
  Effect("reload", NoPath, "", internal_reload(config, hash_file, asc_file, h))

VerifyEffect(p, v) == Effect("verify", Some(p), v.result, v.call)

\* a caller verifies an advisory file
Verify(p, h) == VerifyEffect(p, verify(p, config, hash_file, asc_file, h))

Next ==
  \/ \E m \in Manifests, a \in {"valid", "invalid"} : WriteManifest(m, a)
  \/ \E s \in AscFiles : WriteAsc(s)
  \/ \E h \in HandlerChoices : Reload(h)
  \/ \E p \in AdvisoryPaths, h \in HandlerChoices : Verify(p, h)

Spec == Init /\ [][Next]_vars

\* ------------------------------------------------------------ properties
\* the step is a call of the provider (directly or from verify)
CallStep == last'.seq # last.seq /\ last'.call.called

\* the refresh of the recorded call c ended without a dict
RefreshFailed(c) == c.refreshed /\ (c.gpg.raised # "" \/ c.gpg.result = None)

\* the advisory file of the last verify
LastPath == last.path[1]

\* the recorded call c was backed by a manifest whose signature check
\* succeeded: in this call, or (on a cache hit) in an earlier refresh
BackedByVerified(c) == c.gpg.valid \/ (c.called /\ ~c.refreshed)

\* C1 as stated: every dict the provider returns comes from a manifest whose
\* signature check succeeded, now or in an earlier refresh, and verify returns
\* SUCCESS only for an existing file whose hash is listed under its name in
\* a dict that comes from a signature-verified manifest.
C1_AsClaimed ==
  /\ (last.call.called /\ last.call.raised = "")
       => BackedByVerified(last.call)
  /\ last.result = "SUCCESS"
       => /\ LastPath.is_file
          /\ DictGet(last.call.returned[1], LastPath.sha256) = Some(LastPath.name)
          /\ BackedByVerified(last.call)

\* C1 amended: the cache holds nothing or the last dict parsed from a
\* manifest whose signature check succeeded; every dict the provider returns
\* other than the result of on_verification_failure is that dict; verify
\* returns SUCCESS only for an existing file whose hash is listed under its
\* name in the dict used, which is that dict or the handler's result.
C1_FailClosed ==
  /\ config.cache # None => config.cache = last_validated
  /\ (last.call.called /\ last.call.raised = "" /\ ~last.call.handler_called)
       => (last_validated # None /\ last.call.returned = last_validated)
  /\ last.result = "SUCCESS"
       => /\ LastPath.is_file
          /\ DictGet(last.call.returned[1], LastPath.sha256) = Some(LastPath.name)
          /\ (last.call.handler_called \/ last.call.returned = last_validated)

C1_Witness ==
  /\ last.result = "SUCCESS"
  /\ ~last.call.handler_called
  /\ last.call.gpg.valid
  /\ last.call.returned = last_validated

\* C2: when the signature of the manifest does not validate, gpg_sha256sums
\* returns None without opening the manifest for parsing or storing any of
\* its lines, and the cache holds no dict after that call; a dict the cache
\* holds was returned by gpg_sha256sums after a valid signature.
C2_NoParseUnverified ==
  /\ (last.call.refreshed /\ ~last.call.gpg.valid)
       => /\ ~last.call.gpg.opened
          /\ last.call.gpg.stored = 0
          /\ last.call.gpg.result = None
          /\ (last.call.gpg.raised = "" => config.cache = None)
  /\ (last.call.refreshed /\ last.call.gpg.result # None)
       => (last.call.gpg.valid /\ last.call.gpg.result = last_validated)

C2_Witness ==
  /\ last.call.refreshed
  /\ last.call.gpg.verified = 1
  /\ ~last.call.gpg.valid
  /\ hash_file = LineBare
  /\ config.cache = None

\* C3 as stated: when the dict from a verified manifest lists the hash of an
\* existing file under name N (N possibly empty), verify returns SUCCESS iff
\* the file's basename is N and INVALID_NAME otherwise, never INVALID_HASH.
C3_AsClaimed ==
  (/\ last.op = "verify"
   /\ LastPath.is_file
   /\ last.call.raised = ""
   /\ ~last.call.handler_called
   /\ LastPath.sha256 \in DictKeys(last.call.returned[1]))
    => LET N == DictGet(last.call.returned[1], LastPath.sha256)[1] IN
       /\ last.result = "SUCCESS" <=> LastPath.name = N
       /\ LastPath.name # N => last.result = "INVALID_NAME"

\* C4: when the hash of an existing file has no entry in the dict the
\* provider returned for the call, verify returns INVALID_HASH, whatever the
\* file's name.
C4_InvalidHash ==
  (/\ last.op = "verify"
   /\ LastPath.is_file
   /\ last.call.raised = ""
   /\ LastPath.sha256 \notin DictKeys(last.call.returned[1]))
    => last.result = "INVALID_HASH"

C4_Witness ==
  /\ last.op = "verify"
  /\ LastPath.is_file
  /\ last.call.raised = ""
  /\ ~last.call.handler_called
  /\ LastPath.sha256 \notin DictKeys(last.call.returned[1])
  /\ \E e \in last.call.returned[1] : e[2] = LastPath.name
  /\ last.result = "INVALID_HASH"

\* C5 as stated: after a call that validated the manifest (one with zero
\* entries included), the next call with no modification in between checks
\* no signature, returns the identical dict and leaves the fingerprint and
\* the cache unchanged.
C5_AsClaimed ==
  [][(/\ last.call.refreshed
      /\ last.call.gpg.valid
      /\ last.call.gpg.raised = ""
      /\ CallStep)
       => /\ ~last'.call.refreshed
          /\ last'.call.gpg.verified = 0
          /\ last'.call.returned = last.call.returned
          /\ UNCHANGED config]_vars

\* C6 as stated: when a cached dict exists and the fingerprint of the
\* manifest file differs from the stored one, the next provider call makes
\* exactly one re-verification attempt with one signature check, and does
\* not return the old cached dict without it.
C6_AsClaimed ==
  [][(/\ config.cache # None
      /\ config.fingerprint # create_hash(hash_file)
      /\ CallStep)
       => /\ last'.call.refreshed
          /\ last'.call.gpg.verified = 1
          /\ (last'.call.raised = "" /\ ~last'.call.handler_called)
               => (last'.call.gpg.valid /\ last'.call.returned = last'.call.gpg.result)]_vars

\* C6 amended: when a cached dict exists and the fingerprint of the manifest
\* file differs from the stored one, the next provider call enters the
\* refresh once (gpg_sha256sums is called: one signature check when the
\* signature file can be opened, none when it is absent), and a dict it
\* returns from the cache is the one that refresh produced.
C6_ChangeDetection ==
  [][(/\ config.cache # None
      /\ config.fingerprint # create_hash(hash_file)
      /\ CallStep)
       => /\ last'.call.refreshed
          /\ last'.call.gpg.verified = (IF asc_file = "absent" THEN 0 ELSE 1)
          /\ (last'.call.raised = "" /\ ~last'.call.handler_called)
               => (last'.call.gpg.valid /\ last'.call.returned = last'.call.gpg.result)]_vars

C6_Witness ==
  /\ last.call.reason = "changed"
  /\ last.call.refreshed
  /\ last.call.gpg.verified = 1
  /\ config.fingerprint = create_hash(hash_file)

\* C7 as stated: a call whose refresh fails leaves the stored fingerprint as
\* it was, and the fingerprint changes only together with the cache on a
\* successful refresh.
C7_AsClaimed ==
  [][/\ (CallStep /\ RefreshFailed(last'.call))
          => config'.fingerprint = config.fingerprint
     /\ config'.fingerprint # config.fingerprint
          => /\ last'.call.gpg.valid
             /\ last'.call.gpg.raised = ""
             /\ config'.cache = last'.call.gpg.result]_vars

\* C8 as stated: the provider call that follows a failed refresh, with the
\* manifest unchanged, enters the refresh again and is never a cache hit.
C8_AsClaimed ==
  [][(RefreshFailed(last.call) /\ CallStep) => last'.call.refreshed]_vars

\* C9 as stated: on_verification_failure is invoked with the last validated
\* dict, and with None only when no dict was ever validated.
C9_AsClaimed ==
  [][(CallStep /\ last'.call.handler_called)
       => last'.call.handler_arg = last_validated]_vars

\* C10 as stated: the dict on_verification_failure returns is never stored
\* as the cache, no cache hit returns it, and every later call that still
\* fails invokes the handler again.
C10_AsClaimed ==
  [][/\ config'.cache # None => config'.cache = last_validated'
     /\ (CallStep /\ ~last'.call.refreshed)
          => last'.call.returned = last_validated'
     /\ (handler_used /\ CallStep /\ RefreshFailed(last'.call))
          => last'.call.handler_called]_vars

\* C11 as stated: a refresh that finds the signature file missing ends as a
\* verification failure: gpg_sha256sums returns None without raising and the
\* provider invokes on_verification_failure.
C11_AsClaimed ==
  (last.call.refreshed /\ asc_file = "absent")
    => /\ last.call.gpg.raised = ""
       /\ last.call.gpg.result = None
       /\ last.call.handler_called

\* the manifest content m has a line without the two-space separator
HasMalformedLine(m) ==
  \E i \in 1..Len(readlines(m)) : FindSep(readlines(m)[i]) = 0

\* C12 as stated: a refresh of a manifest with a valid signature and a line
\* without the two-space separator ends as a verification failure: no dict
\* is returned by gpg_sha256sums or held by the cache, and the provider
\* invokes on_verification_failure.
C12_AsClaimed ==
  (last.call.refreshed /\ last.call.gpg.valid /\ HasMalformedLine(hash_file))
    => /\ last.call.gpg.raised = ""
       /\ last.call.gpg.result = None
       /\ config.cache = None
       /\ last.call.handler_called

\* C13: a verify of a path that is not a regular file returns INVALID_FILE
\* without calling the provider: no signature check is made, the handler is
\* not invoked, and the cache and the stored fingerprint are as before.
C13_InvalidFile ==
  [][(/\ last'.seq # last.seq
      /\ last'.op = "verify"
      /\ ~last'.path[1].is_file)
       => /\ last'.result = "INVALID_FILE"
          /\ ~last'.call.called
          /\ ~last'.call.refreshed
          /\ last'.call.gpg.verified = 0
          /\ ~last'.call.handler_called
          /\ UNCHANGED <<config, last_validated, handler_used>>]_vars

\* a non-file was verified while the manifest differed from the cached one
C13_Witness ==
  /\ last.op = "verify"
  /\ ~LastPath.is_file
  /\ last.result = "INVALID_FILE"
  /\ config.cache # None
  /\ config.fingerprint # create_hash(hash_file)
  /\ asc_file = "valid"

\* C14 as stated: whenever the cache holds a dict, it is the dict parsed
\* from the manifest content whose digest is the stored fingerprint.
C14_AsClaimed ==
  config.cache # None
    => /\ config.fingerprint # InitialFingerprint
       /\ parse_file(config.fingerprint[2]).raised = ""
       /\ config.cache = parse_file(config.fingerprint[2]).result

\* C17 as stated: a call whose refresh validated a manifest with zero
\* entries caches and returns the empty dict without invoking
\* on_verification_failure, and a call that finds the empty dict cached
\* under the fingerprint of the unchanged manifest does not refresh.
C17_AsClaimed ==
  [][/\ (/\ CallStep
         /\ last'.call.gpg.valid
         /\ last'.call.gpg.result = Some(EmptyDict))
          => /\ ~last'.call.handler_called
             /\ last'.call.returned = Some(EmptyDict)
             /\ config'.cache = Some(EmptyDict)
     /\ (/\ CallStep
         /\ config.cache = Some(EmptyDict)
         /\ config.fingerprint = create_hash(hash_file))
          => /\ ~last'.call.refreshed
             /\ last'.call.gpg.verified = 0]_vars

\* ------------------------------------------------------------ parse alone
\* The parse loop of gpg_sha256sums applied to arbitrary manifest text whose
\* signature is valid.
\* Largest number of characters of such a text.
MaxChars == 7

Alphabet == {"a", " ", "/", "\n"}

Texts == UNION {[1..n -> Alphabet] : n \in 0..MaxChars}

ParseInit ==
  /\ hash_file \in Texts
  /\ asc_file = "valid"
  /\ config = [cache |-> None, fingerprint |-> InitialFingerprint]
  /\ last = Op("init", 0, NoPath, "", NoCall(config))
  /\ last_validated = None
  /\ handler_used = FALSE
  /\ callers = NoCallers
  /\ heap = NoObjects
  /\ handed_out = {}

\* the call made by gpg_sha256sums that found the signature valid and ran
\* the parse loop with outcome p
ParsedCall(p) == [NoCall(config) EXCEPT !.gpg = Parsed(p, verify_file(asc_file))]

\* lines 105-115 on the text in hash_file
ParseManifest ==
  /\ last.op = "init"
  /\ last' = Op("parse", 1, NoPath, "",
                ParsedCall(parse_lines(readlines(hash_file), 1, EmptyDict)))
  /\ UNCHANGED <<hash_file, asc_file, config, last_validated, handler_used,
                 callers, objects>>

ParseNext == ParseManifest

ParseSpec == ParseInit /\ [][ParseNext]_vars

\* s without its trailing whitespace
rstrip(s) ==
  IF \A i \in 1..Len(s) : s[i] \in Whitespace THEN <<>>
  ELSE SubSeq(s, 1, CHOOSE i \in 1..Len(s) :
         s[i] \notin Whitespace /\ \A j \in (i+1)..Len(s) : s[j] \in Whitespace)

\* the key and the value the claim gives for a line that has a separator
ClaimedKey(line) == SubSeq(line, 1, FindSep(line) - 1)
ClaimedValue(line) == LastSegment(rstrip(Tail2(line, FindSep(line) + 2)))

\* the lines of the text just parsed
ParsedLines == readlines(hash_file)

\* C18 as stated: when every line of a verified manifest has a two-space
\* separator, the parse yields a dict in which every line's key (the text
\* before its first separator) is mapped to the remainder of the last line
\* with that key, trailing whitespace and everything up to the last "/"
\* removed, also when the remainder has a further two-space run; and no
\* value of the dict contains "/".
C18_AsClaimed ==
  (/\ last.op = "parse"
   /\ \A i \in 1..Len(ParsedLines) : FindSep(ParsedLines[i]) # 0)
    => /\ last.call.gpg.raised = ""
       /\ last.call.gpg.result # None
       /\ \A i \in 1..Len(ParsedLines) :
            (\A j \in (i+1)..Len(ParsedLines) :
               ClaimedKey(ParsedLines[j]) # ClaimedKey(ParsedLines[i]))
              => DictGet(last.call.gpg.result[1], ClaimedKey(ParsedLines[i]))
                   = Some(ClaimedValue(ParsedLines[i]))
       /\ \A e \in last.call.gpg.result[1] :
            \A k \in 1..Len(e[2]) : e[2][k] # "/"

\* ------------------------------------------------------------ concurrent callers
\* Two threads call the provider closure of one ReloadConfiguration.
\* internal_reload takes no lock, so the threads interleave between its
\* statements; pc names the line a caller executes next ("l78": it has
\* run line 77 and is inside gpg_sha256sums; "done": it has left the call).
\* The manifests written here are well-formed and the signature file is
\* present, so that gpg_sha256sums does not raise.
ConcManifests == {LineBare, LineDir}

ConcInit ==
  /\ hash_file \in ConcManifests
  /\ asc_file \in {"valid", "invalid"}
  /\ config = [cache |-> None, fingerprint |-> InitialFingerprint]
  /\ last = Op("init", 0, NoPath, "", NoCall(config))
  /\ last_validated = None
  /\ handler_used = FALSE
  /\ callers = NoCallers
  /\ heap = NoObjects
  /\ handed_out = {}

\* caller t moves to the state c, leaving the configuration alone
Step(t, c) ==
  /\ callers' = [callers EXCEPT ![t] = c]
  /\ UNCHANGED <<hash_file, asc_file, config, last, last_validated,
                 handler_used, objects>>

\* line 75: fingerprint = create_hash(config.hash_file)
Line75(t) ==
  /\ callers[t].pc = "idle"
  /\ Step(t, [Idle EXCEPT !.pc = "l76",
                          !.fingerprint = create_hash(hash_file)])

\* line 76: if not config.cache or config.fingerprint != fingerprint
Line76(t) ==
  /\ callers[t].pc = "l76"
  /\ Step(t, IF refresh_reason(config, callers[t].fingerprint) # ""
             THEN [callers[t] EXCEPT !.pc = "l77", !.refreshed = TRUE]
             ELSE [callers[t] EXCEPT !.pc = "l79"])

\* line 77: config.fingerprint = fingerprint; gpg_sha256sums is entered
Line77(t) ==
  /\ callers[t].pc = "l77"
  /\ config' = [config EXCEPT !.fingerprint = callers[t].fingerprint]
  /\ callers' = [callers EXCEPT ![t].pc = "l78"]
  /\ UNCHANGED <<hash_file, asc_file, last, last_validated, handler_used,
                 objects>>

\* line 78, with g the outcome of the gpg_sha256sums call that now ends:
\* config.cache = g.result, unless the call raised
Line78Store(t, g) ==
  /\ config' = IF g.raised # "" THEN config
               ELSE [config EXCEPT !.cache = g.result]
  /\ callers' = [callers EXCEPT ![t] =
                   IF g.raised # ""
                   THEN [callers[t] EXCEPT !.pc = "done", !.raised = g.raised]
                   ELSE [callers[t] EXCEPT !.pc = "l79"]]
  /\ last_validated' = IF g.valid /\ g.raised = "" THEN g.result
                       ELSE last_validated
  /\ UNCHANGED <<hash_file, asc_file, last, handler_used, objects>>

Line78(t) ==
  /\ callers[t].pc = "l78"
  /\ Line78Store(t, gpg_sha256sums(hash_file, asc_file))

\* line 79: if not config.cache
Line79(t) ==
  /\ callers[t].pc = "l79"
  /\ Step(t, [callers[t] EXCEPT
                !.pc = IF ~TruthyDict(config.cache) THEN "l80" ELSE "l81"])

\* line 80: return config.on_verification_failure(None)
Line80(t, h) ==
  /\ callers[t].pc = "l80"
  /\ callers' = [callers EXCEPT ![t] =
                   [callers[t] EXCEPT
                      !.pc = "done",
                      !.handler_called = TRUE,
                      !.raised = IF h = "raise" THEN "HandlerError" ELSE "",
                      !.returned = IF h = "raise" THEN None
                                   ELSE Some(HandlerResult(h))]]
  /\ handler_used' = TRUE
  /\ UNCHANGED <<hash_file, asc_file, config, last, last_validated, objects>>

\* line 81: return config.cache
Line81(t) ==
  /\ callers[t].pc = "l81"
  /\ Step(t, [callers[t] EXCEPT !.pc = "done", !.returned = config.cache])

\* the caller has used the result; it may call again
Return(t) ==
  /\ callers[t].pc = "done"
  /\ Step(t, Idle)

ConcNext ==
  \/ \E m \in ConcManifests, a \in {"valid", "invalid"} : WriteManifest(m, a)
  \/ \E t \in Callers : Line75(t)
  \/ \E t \in Callers : Line76(t)
  \/ \E t \in Callers : Line77(t)
  \/ \E t \in Callers : Line78(t)
  \/ \E t \in Callers : Line79(t)
  \/ \E t \in Callers, h \in HandlerChoices : Line80(t, h)
  \/ \E t \in Callers : Line81(t)
  \/ \E t \in Callers : Return(t)

ConcSpec == ConcInit /\ [][ConcNext]_vars

\* the callers inside gpg_sha256sums (signature check and parse)
InFlight == {t \in Callers : callers[t].pc = "l78"}

\* C15 as stated: at most one caller is inside the re-validation of the
\* manifest (signature check plus parse) at any time.
C15_AsClaimed == Cardinality(InFlight) <= 1

\* C16 as stated: a caller that computed the fingerprint of the changed
\* manifest while another caller's refresh for that fingerprint is in
\* flight, and that did not re-validate itself, does not return a dict
\* other than the one parsed from the content it fingerprinted.
C16_AsClaimed ==
  \A t \in Callers, u \in InFlight :
    (/\ t # u
     /\ callers[t].pc = "done"
     /\ callers[t].raised = ""
     /\ ~callers[t].refreshed
     /\ ~callers[t].handler_called
     /\ callers[t].fingerprint = callers[u].fingerprint
     /\ callers[t].fingerprint = create_hash(hash_file))
      => callers[t].returned = parse_file(callers[t].fingerprint[2]).result

\* ------------------------------------------------------------ dict identity
\* The provider with config.cache held as a reference: a dict is an object
\* of the heap, created by gpg_sha256sums at line 105 and returned to the
\* caller by reference at line 81.
\* Largest number of dict objects created.
MaxObjects == 3

HeapManifests == {<<>>, LineBare, LineDir}

\* the Optional[Dict] a reference stands for
Deref(h, ref) == IF ref = None THEN None ELSE Some(h[ref[1]])

\* the configuration as internal_reload reads it
View == [cache |-> Deref(heap, config.cache), fingerprint |-> config.fingerprint]

\* A plausible slip: the dict already cached is cleared and refilled.
new_dict_in_place(h, cache, d) ==
  IF cache # None
  THEN [heap |-> [h EXCEPT ![cache[1]] = d], ref |-> cache[1]]
  ELSE [heap |-> Append(h, d), ref |-> Len(h) + 1]

\* line 105, result = {}: a new object, which the parse loop fills with d
\* before gpg_sha256sums returns it
new_dict(h, cache, d) == [heap |-> Append(h, d), ref |-> Len(h) + 1]

\* line 78 on references: the cache after the provider call r, where o is
\* the object gpg_sha256sums created (if it returned a dict)
cache_after(r, o) ==
  IF ~r.refreshed \/ r.gpg.raised # "" THEN config.cache
  ELSE IF r.gpg.result = None THEN None
  ELSE Some(o.ref)

\* lines 80-81: the reference handed to the caller, if it is the cache
returned_refs(r, cache) ==
  IF r.raised = "" /\ ~r.handler_called THEN {cache[1]} ELSE {}

HeapStore(r, o) ==
  /\ heap' = o.heap
  /\ config' = [cache |-> cache_after(r, o), fingerprint |-> r.config.fingerprint]
  /\ handed_out' = handed_out \cup returned_refs(r, cache_after(r, o))
  /\ last' = Op("reload", Flip(last.seq), NoPath, "", r)
  /\ Record(r)
  /\ UNCHANGED <<hash_file, asc_file, callers>>

\* the effect of the provider call r
HeapEffect(r) ==
  IF r.gpg.result # None
  THEN /\ Len(heap) < MaxObjects
       /\ HeapStore(r, new_dict(heap, config.cache, r.gpg.result[1]))
  ELSE HeapStore(r, [heap |-> heap, ref |-> 0])

\* a caller invokes the provider
HeapReload(h) == HeapEffect(internal_reload(View, hash_file, asc_file, h))

HeapInit ==
  /\ hash_file \in HeapManifests
  /\ asc_file \in AscFiles
  /\ config = [cache |-> None, fingerprint |-> InitialFingerprint]
  /\ last = Op("init", 0, NoPath, "", NoCall(config))
  /\ last_validated = None
  /\ handler_used = FALSE
  /\ callers = NoCallers
  /\ heap = NoObjects
  /\ handed_out = {}

HeapNext ==
  \/ \E m \in HeapManifests, a \in {"valid", "invalid"} : WriteManifest(m, a)
  \/ \E s \in AscFiles : WriteAsc(s)
  \/ \E h \in HandlerChoices : HeapReload(h)

HeapSpec == HeapInit /\ [][HeapNext]_vars

\* C19: no step changes the contents of a dict that was returned to a
\* caller; a step that changes what the cache refers to makes it refer to
\* a dict created in that step, or to nothing.
C19_NoMutation ==
  [][/\ \A id \in handed_out : heap'[id] = heap[id]
     /\ config'.cache # config.cache
          => \/ config'.cache = None
             \/ config'.cache[1] \notin DOMAIN heap]_vars

\* a dict returned earlier has kept its contents although a later refresh
\* replaced the cache by a dict with other contents
C19_Witness ==
  /\ last.call.refreshed
  /\ config.cache # None
  /\ \E id \in handed_out :
       /\ id # config.cache[1]
       /\ heap[id] # heap[config.cache[1]]
       /\ heap[id] = parse_file(LineBare).result[1]

====
